---- MODULE Spec2Model ----
(*************************************************************************)
(* ETF rotation strategies, GridStrategy and MAStrategy (BaseStrategy    *)
(* under StrategyWrapper) of backtrader_akshare_quant, run by the        *)
(* backtrader bar loop.                                                   *)
(*                                                                        *)
(* Units.  Money (cash, prices, portfolio value) is counted in ticks of  *)
(* 0.0001 yuan, so that the commission of 3/10000 of a trade's value is  *)
(* an integer.  Indicator values are integers; volatility is counted in  *)
(* units of 0.0001, so the code's division guard 0.0001 is 1 unit.       *)
(* Scores and weights are exact rationals [n, d] with d > 0 (the float   *)
(* rounding of the Python code is not modelled).                          *)
(*                                                                        *)
(* One bar of the backtrader loop is two steps: BrokerNext (the data     *)
(* feeds advance, the broker executes the orders submitted on the        *)
(* previous bar) and then the strategy's next().  Orders issued inside   *)
(* next() are only queued: positions and cash do not change before the   *)
(* following BrokerNext.                                                  *)
(*************************************************************************)
EXTENDS Integers, Sequences, FiniteSets, TLC

VARIABLES
    p,                 \* self.p: the strategy's parameters
    day_count,         \* self.day_count
    current_holdings,  \* self.current_holdings: dict etf -> shares
    position,          \* broker: getposition(data).size per data feed
    cash,              \* broker: cash
    pending,           \* broker: orders submitted and not yet executed
    close,             \* data.close[0] per data feed, current bar
    cycle,             \* what the last run of next() read, computed and issued
    rejected,          \* orders of the last BrokerNext that ended in Margin
    crashed,           \* next() raised an exception: the run is over
    pc,                \* "broker": BrokerNext is due; "strategy": next() is due
    \* GridStrategy
    order,             \* self.order: <<>> for None, else the last order issued
    base_price,        \* self.base_price, 0 for None
    grids,             \* self.grids
    trend,             \* self.trend: "none" for None, "up", "down"
    grid_positions,    \* self.grid_positions: dict price level -> shares
    active_buy_grids,  \* self.active_buy_grids
    triggered_grids,   \* self.triggered_grids
    current_grid_info, \* self.current_grid_info
    sma,               \* self.sma[0], current bar
    bar,               \* calls of GridStrategy.next() so far
    grid_log,          \* what next() did last and the orders since setup_grids
    \* StrategyWrapper and the BaseStrategy it drives
    strategy,          \* self.strategy: the fields of the MAStrategy instance
    current_data,      \* self.current_data: dict stock code -> bar data
    ma_log             \* what the last StrategyWrapper.next() read and got back

\* the variables of the rotation strategies and of the broker
rotvars == <<p, day_count, current_holdings, position, cash, pending, close,
             cycle, rejected, crashed, pc>>

\* the variables of GridStrategy
gridvars == <<order, base_price, grids, trend, grid_positions,
              active_buy_grids, triggered_grids, current_grid_info, sma,
              bar, grid_log>>

\* the variables of StrategyWrapper and its strategy
wrapvars == <<strategy, current_data, ma_log>>

vars == <<rotvars, gridvars, wrapvars>>

(*************************************************************************)
(* Bounds of the model                                                    *)
(*************************************************************************)
\* number of rebalance cycles of a backtest of ETFRotationStrategy2
MaxCycles == 2
\* number of rebalance cycles of a backtest of the 0.2 strategy
MaxCycles02 == 3
\* the data feeds (ETFs), named by their index in self.datas
ETFS == {1, 2}

\* starting cash in ticks: 10 yuan
StartCash == 100000
\* the closes a bar can have, in ticks: feed 1 trades at 1 or 2 yuan,
\* feed 2 at 1 yuan or at the invalid price 0
Prices == {c \in [ETFS -> {0, 10000, 20000}] : c[1] # 0 /\ c[2] # 20000}

\* default of --commission, per 10000 of traded value (0.0003)
DefaultCommission == 3

NaN == 0 - 9999

Min(a, b) == IF a < b THEN a ELSE b

(*************************************************************************)
(* Exact rationals                                                        *)
(*************************************************************************)
Abs(x) == IF x < 0 THEN 0 - x ELSE x

RECURSIVE Gcd(_, _)
Gcd(a, b) == IF b = 0 THEN a ELSE Gcd(b, a % b)

\* lowest terms, positive denominator
Norm(r) ==
    LET g == Gcd(Abs(r.n), Abs(r.d))
        s == IF r.d < 0 THEN 0 - 1 ELSE 1
    IN  [n |-> s * (r.n \div g), d |-> s * (r.d \div g)]

Rat(a, b) == Norm([n |-> a, d |-> b])
RLt(a, b) == a.n * b.d < b.n * a.d
RLe(a, b) == a.n * b.d <= b.n * a.d
RAdd(a, b) == Rat(a.n * b.d + b.n * a.d, a.d * b.d)
RMul(a, b) == Rat(a.n * b.n, a.d * b.d)
RDiv(a, b) == Rat(a.n * b.d, a.d * b.n)

\* Python's int(a / b) for b > 0: truncation toward zero
Trunc(a, b) == IF a >= 0 THEN a \div b ELSE 0 - ((0 - a) \div b)

(*************************************************************************)
(* Python dict and list helpers                                           *)
(*************************************************************************)
EmptyDict == [x \in {} |-> 0]
DictPut(h, k, v) == [x \in (DOMAIN h) \cup {k} |-> IF x = k THEN v ELSE h[x]]
DictDel(h, k) == [x \in (DOMAIN h) \ {k} |-> h[x]]
Elems(s) == {s[i] : i \in 1..Len(s)}

RECURSIVE SetToSeq(_)
\* the elements of a set of data-feed indices, ascending
SetToSeq(S) ==
    IF S = {} THEN <<>>
    ELSE LET m == CHOOSE x \in S : \A y \in S : x <= y
         IN  <<m>> \o SetToSeq(S \ {m})

(*************************************************************************)
(* Indicator snapshots of one bar: [sm, lm, vol, vc] are the values of   *)
(* short_momentum, long_momentum, volatility and volume (change) at [0]. *)
(*************************************************************************)
Snap(a, b, c, d) == [sm |-> a, lm |-> b, vol |-> c, vc |-> d]

\* the snapshots feed 1 can show on a bar
Snapshots1 ==
    { Snap(0 - 1, 0 - 1, 1, 5),    \* both momenta negative, volume surging
      Snap(0, 1, 1, 0),            \* zero weighted momentum
      Snap(1, 1, 1, 1),            \* score 10 / 10
      Snap(1, 1, 2, 1) }           \* score 10 / 20

\* the snapshots feed 2 can show on a bar
Snapshots2 ==
    { Snap(1, NaN, NaN, 1),        \* short window full, long window not
      Snap(0 - 1, 1, 1, 0),        \* negative weighted momentum
      Snap(1, 0 - 1, 0, 1),        \* volatility 0: the guard, score 10 / 10
      Snap(1, 1, 2, 1) }           \* score 10 / 20

\* the indicator values of one bar, per feed
Indicators == {<<a, b>> : a \in Snapshots1, b \in Snapshots2}

isnan(x) == x = NaN

\* the two `continue` filters of the scoring loop
Eligible(s) ==
    /\ ~(isnan(s.sm) \/ isnan(s.lm) \/ isnan(s.vol) \/ isnan(s.vc))
    /\ ~(s.sm < 0 /\ s.lm < 0)

\* Score whose guard lets a volatility of 0 through
Score_GuardNegativeOnly(s, vw) ==
    LET price_weight == 10 - vw
        weighted_momentum == price_weight * s.sm + vw * s.vc
        volatility_value == IF s.vol < 0 THEN 1 ELSE s.vol
    IN  Rat(weighted_momentum, 10 * volatility_value)

\* weighted_momentum / volatility_value, volume_weight vw in tenths
Score(s, vw) ==
    LET price_weight == 10 - vw
        weighted_momentum == price_weight * s.sm + vw * s.vc
        volatility_value == IF s.vol <= 0 THEN 1 ELSE s.vol
    IN  Rat(weighted_momentum, 10 * volatility_value)

Zero == Rat(0, 1)

\* Scores2 without the `if score > 0` guard
Scores2_NoSignFilter(ind, vw) ==
    [e \in {f \in ETFS : Eligible(ind[f])} |-> Score(ind[e], vw)]

\* the scores dict of ETFRotationStrategy2: only positive scores are kept
Scores2(ind, vw) ==
    LET keep == {e \in ETFS : Eligible(ind[e]) /\ RLt(Zero, Score(ind[e], vw))}
    IN  [e \in keep |-> Score(ind[e], vw)]

\* SortedEtfs without reverse=True
SortedEtfs_Ascending(scores) ==
    LET D == DOMAIN scores
        Before(f, e) == RLt(scores[f], scores[e]) \/ (scores[f] = scores[e] /\ f < e)
        Rank(e) == Cardinality({f \in D : Before(f, e)}) + 1
    IN  [i \in 1..Cardinality(D) |-> CHOOSE e \in D : Rank(e) = i]

\* sorted(scores.items(), key=score, reverse=True): stable, so equal
\* scores stay in insertion (data feed) order
SortedEtfs(scores) ==
    LET D == DOMAIN scores
        Before(f, e) == RLt(scores[e], scores[f]) \/ (scores[f] = scores[e] /\ f < e)
        Rank(e) == Cardinality({f \in D : Before(f, e)}) + 1
    IN  [i \in 1..Cardinality(D) |-> CHOOSE e \in D : Rank(e) = i]

\* TopEtfs that takes one entry more
TopEtfs_OneMore(sorted_etfs, n) ==
    SubSeq(sorted_etfs, 1, Min(n + 1, Len(sorted_etfs)))

\* sorted_etfs[:n]
TopEtfs(sorted_etfs, n) == SubSeq(sorted_etfs, 1, Min(n, Len(sorted_etfs)))

\* position_limit is counted in fifths: 1 is 0.20
Limit(position_limit) == Rat(position_limit, 5)

\* TargetWeight with the ratio upside down
TargetWeight_Inverted(score, highest_score, position_limit) ==
    IF score = highest_score THEN Limit(position_limit)
    ELSE RMul(RDiv(highest_score, score), Limit(position_limit))

\* the weight of one selected ETF
TargetWeight(score, highest_score, position_limit) ==
    IF score = highest_score THEN Limit(position_limit)
    ELSE RMul(RDiv(score, highest_score), Limit(position_limit))

\* TargetWeights with the last selected score taken as the highest
TargetWeights_HighestIsLast(scores, top_etfs, position_limit) ==
    [e \in Elems(top_etfs) |->
        TargetWeight(scores[e], scores[top_etfs[Len(top_etfs)]], position_limit)]

\* highest_score = top_etfs[0][1]; one weight per selected ETF
TargetWeights(scores, top_etfs, position_limit) ==
    [e \in Elems(top_etfs) |->
        TargetWeight(scores[e], scores[top_etfs[1]], position_limit)]

(*************************************************************************)
(* Broker reads                                                           *)
(*************************************************************************)
RECURSIVE SumOver(_, _)
SumOver(f, S) ==
    IF S = {} THEN 0
    ELSE LET x == CHOOSE y \in S : TRUE IN f[x] + SumOver(f, S \ {x})

\* broker.getvalue(): cash plus the positions at the current close
getvalue == cash + SumOver([e \in ETFS |-> position[e] * close[e]], ETFS)

\* TargetShares rounding away from zero
TargetShares_RoundUp(portfolio_value, target_weight, price) ==
    Trunc(portfolio_value * target_weight.n, target_weight.d * price) + 1

\* int(position_size / price), position_size = portfolio_value * target_weight
TargetShares(portfolio_value, target_weight, price) ==
    Trunc(portfolio_value * target_weight.n, target_weight.d * price)

Order(side, etf, size, kind) ==
    [side |-> side, etf |-> etf, size |-> size, kind |-> kind]

(*************************************************************************)
(* ETFRotationStrategy2.next: the rebalance body                          *)
(*************************************************************************)
\* cycle on a bar without rebalance.  repeat: the bar before ran a cycle
\* with the same target weights and prices, and all its orders were
\* executed; prev_value and prev_orders are that cycle's.  log: the steps
\* next() went through, in the order of its statements.
NoCycle ==
    [ran |-> FALSE, ind |-> <<>>, scores |-> EmptyDict, top_etfs |-> <<>>,
     target_weights |-> EmptyDict, orders |-> <<>>, value |-> 0,
     value_buy |-> 0, pos |-> position, prices |-> close,
     repeat |-> FALSE, prev_value |-> 0, prev_orders |-> <<>>, log |-> <<>>]

\* IsOut without the `not top_etfs` disjunct
IsOut_OnlyWhenSelected(etf, top_etfs) ==
    top_etfs # <<>> /\ etf \notin Elems(top_etfs)

\* line 181: the held ETF is to be closed
IsOut(etf, top_etfs) == top_etfs = <<>> \/ etf \notin Elems(top_etfs)

\* line 230
NeedsSell(target_shares, current_position) == target_shares < current_position

\* NeedsBuy with >= for >
NeedsBuy_OrEqual(target_shares, current_position) ==
    target_shares >= current_position

\* line 263
NeedsBuy(target_shares, current_position) == target_shares > current_position

\* the log entries of the orders just issued (none or one)
Issued(ord) ==
    [i \in 1..Len(ord) |->
        IF ord[i].side = "SELL" THEN "SELL_EXECUTION" ELSE "BUY_EXECUTION"]

RECURSIVE ClosePhase(_, _, _)
\* first loop: every key of current_holdings that is not selected is
\* closed (when the broker position is positive) and dropped from the dict.
\* keys: list(current_holdings.keys()), taken in data-feed order (the
\* dict's insertion order only permutes the close orders among
\* themselves); getdatabyname(etf) is always a feed;
\* acc: [orders, holdings, log]
ClosePhase(keys, top_etfs, acc) ==
    IF keys = <<>> THEN acc
    ELSE LET etf == Head(keys)
             out == IsOut(etf, top_etfs)
             ord == IF out /\ position[etf] > 0
                    THEN <<Order("SELL", etf, position[etf], "close")>>
                    ELSE <<>>
             hold == IF out THEN DictDel(acc.holdings, etf) ELSE acc.holdings
         IN  ClosePhase(Tail(keys), top_etfs,
                        [orders |-> acc.orders \o ord, holdings |-> hold,
                         log |-> acc.log \o Issued(ord)])

\* HoldingsAfterSell forgetting the instrument after every sell
HoldingsAfterSell_AlwaysForget(holdings, etf, target_shares) ==
    DictDel(holdings, etf)

\* self.current_holdings after a sell down to target_shares
HoldingsAfterSell(holdings, etf, target_shares) ==
    IF target_shares > 0
    THEN DictPut(holdings, etf, target_shares)
    ELSE DictDel(holdings, etf)

RECURSIVE SellPhase(_, _, _, _)
\* second loop, over target_weights in insertion order
SellPhase(etfs, target_weights, portfolio_value, acc) ==
    IF etfs = <<>> THEN acc
    ELSE LET etf == Head(etfs)
             price == close[etf]
             target_shares == TargetShares(portfolio_value, target_weights[etf], price)
             current_position == position[etf]
             sells == price > 0 /\ NeedsSell(target_shares, current_position)
             ord == IF sells
                    THEN <<Order("SELL", etf, current_position - target_shares, "sell")>>
                    ELSE <<>>
             hold == IF ~sells THEN acc.holdings
                     ELSE HoldingsAfterSell(acc.holdings, etf, target_shares)
         IN  SellPhase(Tail(etfs), target_weights, portfolio_value,
                       [orders |-> acc.orders \o ord, holdings |-> hold,
                        log |-> acc.log \o Issued(ord)])

RECURSIVE BuyPhase_StopAtBadPrice(_, _, _, _)
\* BuyPhase where a price <= 0 ends the loop instead of the iteration
BuyPhase_StopAtBadPrice(etfs, target_weights, portfolio_value, acc) ==
    IF etfs = <<>> THEN acc
    ELSE LET etf == Head(etfs)
             price == close[etf]
             target_shares == TargetShares(portfolio_value, target_weights[etf], price)
             current_position == position[etf]
             buys == NeedsBuy(target_shares, current_position)
             ord == IF buys
                    THEN <<Order("BUY", etf, target_shares - current_position, "buy")>>
                    ELSE <<>>
             hold == IF buys THEN DictPut(acc.holdings, etf, target_shares)
                     ELSE acc.holdings
         IN  IF price <= 0 THEN acc
             ELSE BuyPhase_StopAtBadPrice(Tail(etfs), target_weights, portfolio_value,
                      [orders |-> acc.orders \o ord, holdings |-> hold,
                       log |-> acc.log \o Issued(ord)])

RECURSIVE BuyPhase(_, _, _, _)
\* third loop, over target_weights in insertion order
BuyPhase(etfs, target_weights, portfolio_value, acc) ==
    IF etfs = <<>> THEN acc
    ELSE LET etf == Head(etfs)
             price == close[etf]
             target_shares == TargetShares(portfolio_value, target_weights[etf], price)
             current_position == position[etf]
             buys == price > 0 /\ NeedsBuy(target_shares, current_position)
             ord == IF buys
                    THEN <<Order("BUY", etf, target_shares - current_position, "buy")>>
                    ELSE <<>>
             hold == IF buys THEN DictPut(acc.holdings, etf, target_shares)
                     ELSE acc.holdings
         IN  BuyPhase(Tail(etfs), target_weights, portfolio_value,
                      [orders |-> acc.orders \o ord, holdings |-> hold,
                       log |-> acc.log \o Issued(ord)])

\* the value the buy loop sizes with: broker.getvalue() read again after
\* the sell loop.  The sells are only queued, so the broker's cash and
\* positions are those of the start of next().
ValueAfterSells == getvalue

\* RefreshValue that does not read the value again
RefreshValue_Skipped(acc) ==
    [orders |-> acc.orders, holdings |-> acc.holdings, log |-> acc.log,
     value |-> ValueAfterSells]

\* line 242, between the two loops: portfolio_value is assigned again
RefreshValue(acc) ==
    [orders |-> acc.orders, holdings |-> acc.holdings,
     log |-> Append(acc.log, "VALUE_REFRESH"),
     value |-> ValueAfterSells]

\* SizingPhases with the buy loop ahead of the sell loop
SizingPhases_BuyFirst(top_etfs, target_weights, portfolio_value, acc) ==
    LET fresh == RefreshValue(acc)
    IN  SellPhase(top_etfs, target_weights, portfolio_value,
                  BuyPhase(top_etfs, target_weights, fresh.value, fresh))

\* the sell loop, the second read of the value and then the buy loop
SizingPhases(top_etfs, target_weights, portfolio_value, acc) ==
    LET fresh == RefreshValue(SellPhase(top_etfs, target_weights,
                                        portfolio_value, acc))
    IN  BuyPhase(top_etfs, target_weights, fresh.value, fresh)

\* the rebalance body for one indicator snapshot: the orders in the order
\* they are issued and the current_holdings left behind
Rebalance2(ind) ==
    LET portfolio_value == getvalue
        scores == Scores2(ind, p.volume_weight)
        sorted_etfs == SortedEtfs(scores)
        top_etfs == TopEtfs(sorted_etfs, p.max_etfs)
        start == [orders |-> <<>>, holdings |-> current_holdings,
                  log |-> <<"SCORING", "TARGET_SELECTION">>]
        closed == ClosePhase(SetToSeq(DOMAIN current_holdings), top_etfs, start)
        target_weights == TargetWeights(scores, top_etfs, p.position_limit)
        bought == SizingPhases(top_etfs, target_weights, portfolio_value, closed)
        done == IF top_etfs = <<>> THEN closed ELSE bought
        weights == IF top_etfs = <<>> THEN EmptyDict ELSE target_weights
    IN  [ran |-> TRUE, ind |-> ind, scores |-> scores, top_etfs |-> top_etfs,
         target_weights |-> weights,
         orders |-> done.orders, holdings |-> done.holdings,
         value |-> portfolio_value, value_buy |-> ValueAfterSells,
         pos |-> position, prices |-> close,
         repeat |-> /\ cycle.ran
                    /\ cycle.target_weights = weights
                    /\ cycle.prices = close
                    /\ rejected = <<>>,
         prev_value |-> cycle.value, prev_orders |-> cycle.orders,
         log |-> Append(done.log, "IDLE")]

CycleOf(r) ==
    [ran |-> r.ran, ind |-> r.ind, scores |-> r.scores, top_etfs |-> r.top_etfs,
     target_weights |-> r.target_weights, orders |-> r.orders, value |-> r.value,
     value_buy |-> r.value_buy, pos |-> r.pos, prices |-> r.prices,
     repeat |-> r.repeat, prev_value |-> r.prev_value,
     prev_orders |-> r.prev_orders, log |-> r.log]

\* the horizon of the model: the bar of the last rebalance cycle.  The
\* broker still processes the bar after it, which executes its orders.
LastBar ==
    (IF p.strategy = "ETFRotationStrategy2" THEN MaxCycles ELSE MaxCycles02)
        * p.rebalance_days
BarsLeft == day_count < LastBar

\* IsRebalanceBar counting the bars from 0
IsRebalanceBar_ZeroBased(count, rebalance_days) ==
    (count - 1) % rebalance_days = 0

\* lines 121-122: next() goes on past the early return
IsRebalanceBar(count, rebalance_days) == count % rebalance_days = 0

\* ETFRotationStrategy2.next, called once per bar
next ==
    /\ p.strategy = "ETFRotationStrategy2"
    /\ pc = "strategy"
    /\ ~crashed
    /\ BarsLeft
    /\ day_count' = day_count + 1
    /\ IF ~IsRebalanceBar(day_count', p.rebalance_days)
       THEN /\ cycle' = NoCycle
            /\ UNCHANGED <<current_holdings, pending>>
       ELSE \E ind \in Indicators :
              LET r == Rebalance2(ind)
              IN  /\ cycle' = CycleOf(r)
                  /\ current_holdings' = r.holdings
                  /\ pending' = pending \o r.orders
    /\ pc' = "broker"
    /\ UNCHANGED <<p, position, cash, close, rejected, crashed>>
    /\ UNCHANGED gridvars
    /\ UNCHANGED wrapvars

(*************************************************************************)
(* The backtrader broker, one bar                                         *)
(*************************************************************************)
\* commission of a trade of `size` shares at `price`
Commission(size, price) == (size * price * p.commission) \div 10000

RECURSIVE Execute(_, _, _)
\* the queued market orders are executed in submission order at the new
\* bar's price (a bar has one price here); a buy the cash cannot pay ends
\* in Margin and is dropped, a sell is always executed (the broker allows
\* short positions).
\* b: [position, cash, rejected]
Execute(orders, price, b) ==
    IF orders = <<>> THEN b
    ELSE LET o == Head(orders)
             px == price[o.etf]
             comm == Commission(o.size, px)
             cost == o.size * px + comm
             nb == IF o.side = "SELL"
                   THEN [position |-> [b.position EXCEPT ![o.etf] = @ - o.size],
                         cash |-> b.cash + o.size * px - comm,
                         rejected |-> b.rejected]
                   ELSE IF b.cash >= cost
                   THEN [position |-> [b.position EXCEPT ![o.etf] = @ + o.size],
                         cash |-> b.cash - cost,
                         rejected |-> b.rejected]
                   ELSE [position |-> b.position, cash |-> b.cash,
                         rejected |-> b.rejected \o <<o>>]
         IN  Execute(Tail(orders), price, nb)

\* the data feeds advance to the next bar and the broker executes what
\* was submitted on the previous one
BrokerNext ==
    /\ pc = "broker"
    /\ ~crashed
    /\ day_count <= LastBar
    /\ \E c \in Prices :
         LET b == Execute(pending, c,
                    [position |-> position, cash |-> cash, rejected |-> <<>>])
         IN  /\ close' = c
             /\ position' = b.position
             /\ cash' = b.cash
             /\ rejected' = b.rejected
    /\ pending' = <<>>
    /\ pc' = "strategy"
    /\ UNCHANGED <<p, day_count, current_holdings, cycle, crashed>>
    /\ UNCHANGED gridvars
    /\ UNCHANGED wrapvars

(*************************************************************************)
(* GridStrategy after construction (the strategy itself is further down)  *)
(*************************************************************************)
\* current_grid_info before the first grid has triggered
NoInfo == [grid_type |-> "none", grid_index |-> 0, price_level |-> Zero]

\* grid_log before the first bar.  ran: the last next() went past the test
\* of self.order; reset: it ran setup_grids; issued: the orders it issued;
\* buys: the grids of the buy orders issued since the last setup_grids;
\* filled_buys, filled_sells: the buy and grid sell orders completed since
NoGridLog ==
    [ran |-> FALSE, reset |-> FALSE, issued |-> <<>>, buys |-> <<>>,
     filled_buys |-> 0, filled_sells |-> 0]

\* the fields of GridStrategy after __init__
GridFieldsInit ==
    /\ order = <<>>
    /\ base_price = 0
    /\ grids = <<>>
    /\ trend = "none"
    /\ grid_positions = EmptyDict
    /\ active_buy_grids = 0
    /\ triggered_grids = {}
    /\ current_grid_info = NoInfo
    /\ sma = 2000
    /\ bar = 0
    /\ grid_log = NoGridLog

(*************************************************************************)
(* BaseStrategy and MAStrategy after construction (StrategyWrapper is     *)
(* further down)                                                          *)
(*************************************************************************)
\* the fields of a MAStrategy after __init__
MAStrategy(ma_period) ==
    [ma_period |-> ma_period, positions |-> EmptyDict, portfolio_value |-> 0,
     cash |-> 0, initial_capital |-> 0, universe |-> <<>>,
     previous_ma |-> EmptyDict, previous_price |-> EmptyDict]

\* ma_log before the first call.  orders: the order decisions the last
\* handle_data returned; pos, cash: positions and cash of the strategy when
\* that call began; net: per stock code, the sum of the quantity changes
\* passed to update_position so far; calls: the number of those calls
NoMALog ==
    [orders |-> <<>>, pos |-> EmptyDict, cash |-> 0, net |-> EmptyDict,
     calls |-> 0]

\* no StrategyWrapper in the run: a strategy nobody drives
WrapperFieldsInit ==
    /\ strategy = MAStrategy(2)
    /\ current_data = EmptyDict
    /\ ma_log = NoMALog

(*************************************************************************)
(* Specification of ETFRotationStrategy2 under the broker                 *)
(*************************************************************************)
Param(m, l, r, c) ==
    [strategy |-> "ETFRotationStrategy2",
     max_etfs |-> m, position_limit |-> l, rebalance_days |-> r,
     volume_weight |-> 3, top_n |-> 2, commission |-> c]

\* the parameter settings explored: position_limit 1 is the default 0.20,
\* 3 is 0.60; the commission is the default or --commission 0
Params ==
    {Param(2, 1, 1, DefaultCommission), Param(2, 1, 1, 0),
     Param(2, 3, 1, DefaultCommission), Param(1, 3, 2, DefaultCommission)}

Init ==
    /\ p \in Params
    /\ day_count = 0
    /\ current_holdings = EmptyDict
    /\ position = [e \in ETFS |-> 0]
    /\ cash = StartCash
    /\ pending = <<>>
    /\ close = [e \in ETFS |-> 10000]
    /\ cycle = [NoCycle EXCEPT !.pos = [e \in ETFS |-> 0],
                                !.prices = [e \in ETFS |-> 10000]]
    /\ rejected = <<>>
    /\ crashed = FALSE
    /\ pc = "broker"
    /\ GridFieldsInit
    /\ WrapperFieldsInit

Next == BrokerNext \/ next

Spec == Init /\ [][Next]_vars

(*************************************************************************)
(* ETFRotationStrategy (etf_rotation_strategy_v0.2.py)                    *)
(*************************************************************************)
\* the scores dict of the 0.2 strategy: every eligible ETF, whatever the
\* sign of its score
Scores02(ind, vw) ==
    [e \in {f \in ETFS : Eligible(ind[f])} |-> Score(ind[e], vw)]

RECURSIVE RSum(_, _)
RSum(scores, etfs) ==
    IF etfs = <<>> THEN Zero
    ELSE RAdd(scores[Head(etfs)], RSum(scores, Tail(etfs)))

\* Strategy.close(data): an order for the whole position, a buy when the
\* position is short; nothing when there is no position
CloseOrder(etf) ==
    IF position[etf] > 0 THEN <<Order("SELL", etf, position[etf], "close")>>
    ELSE IF position[etf] < 0 THEN <<Order("BUY", etf, 0 - position[etf], "close")>>
    ELSE <<>>

RECURSIVE ClosePhase02(_, _, _)
ClosePhase02(keys, top_etfs, acc) ==
    IF keys = <<>> THEN acc
    ELSE LET etf == Head(keys)
             out == etf \notin Elems(top_etfs)
         IN  ClosePhase02(Tail(keys), top_etfs,
                 [orders |-> acc.orders \o (IF out THEN CloseOrder(etf) ELSE <<>>),
                  holdings |-> IF out THEN DictDel(acc.holdings, etf)
                               ELSE acc.holdings,
                  raised |-> FALSE])

\* score / total_score if total_score > 0 else 0
ScoreRatio(score, total_score) ==
    IF RLt(Zero, total_score) THEN RDiv(score, total_score) ELSE Zero

RECURSIVE AdjustPhase02(_, _, _, _, _)
\* the single sizing loop of the 0.2 strategy; a close of 0 makes
\* position_size / price raise, which ends next() where it stands
AdjustPhase02(etfs, scores, total_score, portfolio_value, acc) ==
    IF etfs = <<>> THEN acc
    ELSE LET etf == Head(etfs)
             score_ratio == ScoreRatio(scores[etf], total_score)
             price == close[etf]
             target_shares == TargetShares(portfolio_value, score_ratio, price)
             current_position == position[etf]
         IN  IF price = 0
             THEN [orders |-> acc.orders, holdings |-> acc.holdings, raised |-> TRUE]
             ELSE IF target_shares > current_position
             THEN AdjustPhase02(Tail(etfs), scores, total_score, portfolio_value,
                    [orders |-> acc.orders \o
                        <<Order("BUY", etf, target_shares - current_position, "buy")>>,
                     holdings |-> DictPut(acc.holdings, etf, target_shares),
                     raised |-> FALSE])
             ELSE IF target_shares < current_position
             THEN AdjustPhase02(Tail(etfs), scores, total_score, portfolio_value,
                    [orders |-> acc.orders \o
                        <<Order("SELL", etf, current_position - target_shares, "sell")>>,
                     holdings |-> IF target_shares > 0
                                  THEN DictPut(acc.holdings, etf, target_shares)
                                  ELSE DictDel(acc.holdings, etf),
                     raised |-> FALSE])
             ELSE AdjustPhase02(Tail(etfs), scores, total_score, portfolio_value, acc)

Rebalance02(ind) ==
    LET portfolio_value == getvalue
        scores == Scores02(ind, p.volume_weight)
        sorted_etfs == SortedEtfs(scores)
        top_etfs == TopEtfs(sorted_etfs, p.top_n)
        start == [orders |-> <<>>, holdings |-> current_holdings, raised |-> FALSE]
        closed == ClosePhase02(SetToSeq(DOMAIN current_holdings), top_etfs, start)
        total_score == RSum(scores, top_etfs)
        adjusted == AdjustPhase02(top_etfs, scores, total_score, portfolio_value, closed)
        done == IF top_etfs = <<>> THEN start ELSE adjusted
    IN  [ran |-> TRUE, ind |-> ind, scores |-> scores, top_etfs |-> top_etfs,
         target_weights |->
            IF top_etfs = <<>> THEN EmptyDict
            ELSE [e \in Elems(top_etfs) |-> ScoreRatio(scores[e], total_score)],
         orders |-> done.orders, holdings |-> done.holdings,
         value |-> portfolio_value, value_buy |-> portfolio_value,
         pos |-> position, prices |-> close, raised |-> done.raised,
         repeat |-> FALSE, prev_value |-> cycle.value,
         prev_orders |-> cycle.orders, log |-> <<>>]

\* the snapshots a feed can show to the 0.2 strategy
Snapshots02 ==
    { Snap(0 - 1, 0 - 1, 1, 5),    \* both momenta negative
      Snap(0 - 1, 1, 1, 0),        \* negative weighted momentum: score -7 / 10
      Snap(1, 1, 1, 1),            \* score 10 / 10
      Snap(1, NaN, NaN, 1) }       \* long window not full

Indicators02 == {<<a, b>> : a \in Snapshots02, b \in Snapshots02 \ {Snap(1, NaN, NaN, 1)}}

\* ETFRotationStrategy.next (0.2), called once per bar
next02 ==
    /\ p.strategy = "ETFRotationStrategy"
    /\ pc = "strategy"
    /\ ~crashed
    /\ BarsLeft
    /\ day_count' = day_count + 1
    /\ IF day_count' % p.rebalance_days # 0
       THEN /\ cycle' = NoCycle
            /\ UNCHANGED <<current_holdings, pending, crashed>>
       ELSE \E ind \in Indicators02 :
              LET r == Rebalance02(ind)
              IN  /\ cycle' = CycleOf(r)
                  /\ current_holdings' = r.holdings
                  /\ pending' = pending \o r.orders
                  /\ crashed' = r.raised
    /\ pc' = "broker"
    /\ UNCHANGED <<p, position, cash, close, rejected>>
    /\ UNCHANGED gridvars
    /\ UNCHANGED wrapvars

Params02 ==
    { [strategy |-> "ETFRotationStrategy",
       max_etfs |-> 2, position_limit |-> 1, rebalance_days |-> 1,
       volume_weight |-> 3, top_n |-> n, commission |-> DefaultCommission] :
      n \in {1, 2} }

Init02 ==
    /\ p \in Params02
    /\ day_count = 0
    /\ current_holdings = EmptyDict
    /\ position = [e \in ETFS |-> 0]
    /\ cash = StartCash
    /\ pending = <<>>
    /\ close = [e \in ETFS |-> 10000]
    /\ cycle = [NoCycle EXCEPT !.pos = [e \in ETFS |-> 0],
                                !.prices = [e \in ETFS |-> 10000]]
    /\ rejected = <<>>
    /\ crashed = FALSE
    /\ pc = "broker"
    /\ GridFieldsInit
    /\ WrapperFieldsInit

Next02 == BrokerNext \/ next02

Spec02 == Init02 /\ [][Next02]_vars

(*************************************************************************)
(* GridStrategy (grid_strategy.py), trading data feed 1 under the same   *)
(* broker.  Prices are ticks of 0.0001 yuan; a grid price is the exact   *)
(* rational base_price * (1 -/+ i * spacing).  The class calls           *)
(* super().next() and super().notify_order(order) of a backtrader base   *)
(* class and tests self.order, which it never assigns None itself:       *)
(* self.order is None after construction, and whether the inherited      *)
(* notify_order clears it (as MACrossStrategy.notify_order does) is the  *)
(* parameter resets_order, explored both ways.                            *)
(*************************************************************************)
\* number of bars on which next() is called.  Up to the fifth call the
\* trend compares the average with its value five bars before, which
\* lies before the first call: the trend is an input of its own.
MaxGridBars == 4

\* self.datas[0]
Data0 == 1

\* the closes of feed 1, in ticks
GridCloses == {1900, 1950, 2100}

\* the values of the 20-bar average self.sma[0], in ticks
Smas == {1940, 2000}

\* spacings are counted in two-hundredths (2 is 0.01, 5 is 0.025),
\* capital_per_grid in hundredths (5 is 0.05); two grid levels
GridParam(b) ==
    [strategy |-> "GridStrategy", grid_levels |-> 2,
     up_grid_spacing |-> 2, down_grid_spacing |-> 5, capital_per_grid |-> 5,
     commission |-> DefaultCommission, resets_order |-> b]

GridParams == {GridParam(b) : b \in BOOLEAN}

\* round(x, 3) of a price x > 0 given in ticks: the nearest multiple of 10
\* ticks (no grid price of the model lies halfway between two)
Round3(x) == 10 * ((2 * x.n + 10 * x.d) \div (20 * x.d))

\* base_price * (1 - i * grid_spacing) for a buy grid, (1 + ...) for a
\* sell grid
GridPrice(base, i, grid_spacing, type) ==
    Rat(base * (IF type = "buy" THEN 200 - i * grid_spacing
                ELSE 200 + i * grid_spacing), 200)

\* the grids list: the buy grids 1..grid_levels, then the sell grids
Grids(base, grid_spacing, grid_levels) ==
    [k \in 1..(2 * grid_levels) |->
        IF k <= grid_levels
        THEN [price |-> GridPrice(base, k, grid_spacing, "buy"),
              type |-> "buy", index |-> k]
        ELSE [price |-> GridPrice(base, k - grid_levels, grid_spacing, "sell"),
              type |-> "sell", index |-> k - grid_levels]]

Spacing(t) == IF t = "up" THEN p.up_grid_spacing ELSE p.down_grid_spacing

\* an order of GridStrategy; index and key name the grid it was issued for
GridOrder(side, size, kind, index, key) ==
    [side |-> side, etf |-> Data0, size |-> size, kind |-> kind,
     index |-> index, key |-> key]

\* the fields of the strategy while next() runs
Self ==
    [order |-> order, base_price |-> base_price, grids |-> grids,
     trend |-> trend, grid_positions |-> grid_positions,
     active_buy_grids |-> active_buy_grids,
     triggered_grids |-> triggered_grids,
     current_grid_info |-> current_grid_info,
     issued |-> <<>>, reset |-> FALSE, buys |-> grid_log.buys,
     filled_buys |-> grid_log.filled_buys,
     filled_sells |-> grid_log.filled_sells]

\* setup_grids: sell the whole position, take the average as base price,
\* forget the grid state and build the grids for the current trend
setup_grids(s) ==
    LET size == position[Data0]
        sell == IF size > 0
                THEN <<GridOrder("SELL", size, "reset", 0, 0)>>
                ELSE <<>>
    IN  [s EXCEPT !.order = IF sell # <<>> THEN sell ELSE @,
                  !.issued = @ \o sell,
                  !.base_price = sma,
                  !.grids = Grids(sma, Spacing(s.trend), p.grid_levels),
                  !.grid_positions = EmptyDict,
                  !.active_buy_grids = 0,
                  !.triggered_grids = {},
                  !.reset = TRUE, !.buys = <<>>,
                  !.filled_buys = 0, !.filled_sells = 0]

\* lines 72-79: the trend has changed or there is no base price yet, or
\* the average has moved away from the base price by more than a spacing
Regrid(current_trend) ==
    LET s == Self
    IN  IF base_price = 0 \/ current_trend # trend
        THEN setup_grids([s EXCEPT !.trend = current_trend])
        ELSE IF Abs(sma - base_price) * 200 > Spacing(trend) * base_price
        THEN setup_grids(s)
        ELSE s

\* AlreadyTriggered that never holds
AlreadyTriggered_Never(t, grid_price_key, triggered) == FALSE

\* lines 107-109: in a down trend the price level has triggered before
AlreadyTriggered(t, grid_price_key, triggered) ==
    t = "down" /\ grid_price_key \in triggered

\* self.buy / self.sell return None for a size of 0
Submit(side, size, index, key) ==
    IF size > 0 THEN <<GridOrder(side, size, "grid", index, key)>> ELSE <<>>

RECURSIVE CheckGrids(_, _)
\* the loop over self.grids of next(); the broker does not change while
\* it runs, so cash, value and position are those of the start of next()
CheckGrids(gs, s) ==
    IF gs = <<>> THEN s
    ELSE LET grid == Head(gs)
             current_price == close[Data0]
             available_cash == cash
             value == getvalue
             \* available_cash >= grid_cash, grid_cash = value * capital_per_grid
             affordable == 100 * available_cash >= value * p.capital_per_grid
             target_size == Trunc(value * p.capital_per_grid, 100 * current_price)
             grid_price_key == Round3(grid.price)
             buy == Submit("BUY", target_size, grid.index, grid_price_key)
             sell == Submit("SELL", target_size, grid.index, grid_price_key)
             next_s ==
                IF grid.type = "buy" /\ RLe(Rat(current_price, 1), grid.price)
                THEN IF \/ s.active_buy_grids >= p.grid_levels
                        \/ grid_price_key \in DOMAIN s.grid_positions
                        \/ AlreadyTriggered(s.trend, grid_price_key, s.triggered_grids)
                        \/ ~affordable
                     THEN s
                     ELSE [s EXCEPT
                            !.order = buy,
                            !.issued = @ \o buy,
                            !.buys = @ \o buy,
                            !.triggered_grids =
                                IF s.trend = "down" THEN @ \cup {grid_price_key} ELSE @,
                            !.current_grid_info =
                                [grid_type |-> "buy", grid_index |-> grid.index,
                                 price_level |-> Rat(grid_price_key, 1)]]
                ELSE IF grid.type = "sell" /\ RLe(grid.price, Rat(current_price, 1))
                THEN IF \/ position[Data0] = 0
                        \/ position[Data0] < target_size
                        \/ s.active_buy_grids <= 0
                     THEN s
                     ELSE [s EXCEPT
                            !.order = sell,
                            !.issued = @ \o sell,
                            !.current_grid_info =
                                [grid_type |-> "sell", grid_index |-> grid.index,
                                 price_level |-> grid.price]]
                ELSE s
         IN  CheckGrids(Tail(gs), next_s)

\* the trend next() can see: sma5[0] > sma5[-1].  On the first call
\* sma5[-1] is still NaN and the comparison is false
Trends(b) == IF b = 1 THEN {"down"} ELSE {"up", "down"}

\* GridStrategy.next, called once per bar
GridStrategy_next ==
    /\ p.strategy = "GridStrategy"
    /\ pc = "strategy"
    /\ bar < MaxGridBars
    /\ bar' = bar + 1
    /\ IF order # <<>>
       THEN /\ grid_log' = [grid_log EXCEPT !.ran = FALSE, !.reset = FALSE,
                                            !.issued = <<>>]
            /\ UNCHANGED <<order, base_price, grids, trend, grid_positions,
                           active_buy_grids, triggered_grids,
                           current_grid_info, pending>>
       ELSE \E current_trend \in Trends(bar') :
              LET s == CheckGrids(Regrid(current_trend).grids,
                                  Regrid(current_trend))
              IN  /\ order' = s.order
                  /\ base_price' = s.base_price
                  /\ grids' = s.grids
                  /\ trend' = s.trend
                  /\ grid_positions' = s.grid_positions
                  /\ active_buy_grids' = s.active_buy_grids
                  /\ triggered_grids' = s.triggered_grids
                  /\ current_grid_info' = s.current_grid_info
                  /\ pending' = pending \o s.issued
                  /\ grid_log' = [ran |-> TRUE, reset |-> s.reset,
                                  issued |-> s.issued, buys |-> s.buys,
                                  filled_buys |-> s.filled_buys,
                                  filled_sells |-> s.filled_sells]
    /\ pc' = "broker"
    /\ UNCHANGED <<p, position, cash, close, sma, rejected, crashed,
                   day_count, current_holdings, cycle>>
    /\ UNCHANGED wrapvars

\* notify_order counting every filled buy as a new grid
notify_order_CountsEveryBuy(o, g) ==
    LET price_level == Round3(current_grid_info.price_level)
        held == DOMAIN g.grid_positions
    IN  IF o.side = "BUY"
        THEN [grid_positions |->
                 DictPut(g.grid_positions, price_level,
                         (IF price_level \in held
                          THEN g.grid_positions[price_level] ELSE 0) + o.size),
              active_buy_grids |-> g.active_buy_grids + 1]
        ELSE IF held = {} THEN g
        ELSE LET sell_price == CHOOSE k \in held : \A j \in held : j <= k
                 left == g.grid_positions[sell_price] - o.size
             IN  IF left <= 0
                 THEN [grid_positions |-> DictDel(g.grid_positions, sell_price),
                       active_buy_grids |-> g.active_buy_grids - 1]
                 ELSE [grid_positions |-> DictPut(g.grid_positions, sell_price, left),
                       active_buy_grids |-> g.active_buy_grids]

\* GridStrategy.notify_order for a Completed order: a buy opens the grid
\* of current_grid_info (or adds to it), a sell takes its size off the
\* highest-priced open grid and closes it when nothing is left.
\* g: [grid_positions, active_buy_grids]
notify_order(o, g) ==
    LET price_level == Round3(current_grid_info.price_level)
        held == DOMAIN g.grid_positions
    IN  IF o.side = "BUY"
        THEN [grid_positions |->
                 DictPut(g.grid_positions, price_level,
                         (IF price_level \in held
                          THEN g.grid_positions[price_level] ELSE 0) + o.size),
              active_buy_grids |->
                 IF price_level \in held THEN g.active_buy_grids
                 ELSE g.active_buy_grids + 1]
        ELSE IF held = {} THEN g
        ELSE LET sell_price == CHOOSE k \in held : \A j \in held : j <= k
                 left == g.grid_positions[sell_price] - o.size
             IN  IF left <= 0
                 THEN [grid_positions |-> DictDel(g.grid_positions, sell_price),
                       active_buy_grids |-> g.active_buy_grids - 1]
                 ELSE [grid_positions |-> DictPut(g.grid_positions, sell_price, left),
                       active_buy_grids |-> g.active_buy_grids]

RECURSIVE GridExecute(_, _, _)
\* the broker executes the queued orders of feed 1 in submission order at
\* the new bar's price and notifies the strategy of each: Completed, or
\* Margin for a buy the cash cannot pay.
\* b: [size, cash, rejected, g, filled_buys, filled_sells]
GridExecute(orders, price, b) ==
    IF orders = <<>> THEN b
    ELSE LET o == Head(orders)
             comm == Commission(o.size, price)
             cost == o.size * price + comm
             nb == IF o.side = "SELL"
                   THEN [b EXCEPT !.size = @ - o.size,
                                  !.cash = @ + o.size * price - comm,
                                  !.g = notify_order(o, @),
                                  !.filled_sells =
                                      IF o.kind = "grid" THEN @ + 1 ELSE @]
                   ELSE IF b.cash >= cost
                   THEN [b EXCEPT !.size = @ + o.size,
                                  !.cash = @ - cost,
                                  !.g = notify_order(o, @),
                                  !.filled_buys = @ + 1]
                   ELSE [b EXCEPT !.rejected = @ \o <<o>>]
         IN  GridExecute(Tail(orders), price, nb)

\* the data feed advances to the next bar, the broker executes what was
\* submitted on the previous one and the strategy is notified
GridBrokerNext ==
    /\ p.strategy = "GridStrategy"
    /\ pc = "broker"
    /\ bar <= MaxGridBars
    /\ \E c \in GridCloses, a \in Smas :
         LET b == GridExecute(pending, c,
                    [size |-> position[Data0], cash |-> cash, rejected |-> <<>>,
                     g |-> [grid_positions |-> grid_positions,
                            active_buy_grids |-> active_buy_grids],
                     filled_buys |-> grid_log.filled_buys,
                     filled_sells |-> grid_log.filled_sells])
         IN  /\ close' = [e \in ETFS |-> c]
             /\ sma' = a
             /\ position' = [position EXCEPT ![Data0] = b.size]
             /\ cash' = b.cash
             /\ rejected' = b.rejected
             /\ grid_positions' = b.g.grid_positions
             /\ active_buy_grids' = b.g.active_buy_grids
             /\ grid_log' = [grid_log EXCEPT !.filled_buys = b.filled_buys,
                                             !.filled_sells = b.filled_sells]
    /\ order' = IF pending # <<>> /\ p.resets_order THEN <<>> ELSE order
    /\ pending' = <<>>
    /\ pc' = "strategy"
    /\ UNCHANGED <<p, bar, base_price, grids, trend, triggered_grids,
                   current_grid_info, crashed, day_count, current_holdings,
                   cycle>>
    /\ UNCHANGED wrapvars

InitGrid ==
    /\ p \in GridParams
    /\ day_count = 0
    /\ current_holdings = EmptyDict
    /\ position = [e \in ETFS |-> 0]
    /\ cash = StartCash
    /\ pending = <<>>
    /\ close = [e \in ETFS |-> 2000]
    /\ cycle = [NoCycle EXCEPT !.pos = [e \in ETFS |-> 0],
                                !.prices = [e \in ETFS |-> 2000]]
    /\ rejected = <<>>
    /\ crashed = FALSE
    /\ pc = "broker"
    /\ GridFieldsInit
    /\ WrapperFieldsInit

NextGrid == GridBrokerNext \/ GridStrategy_next

SpecGrid == InitGrid /\ [][NextGrid]_vars

(*************************************************************************)
(* BaseStrategy: the bookkeeping every strategy inherits                  *)
(*************************************************************************)
set_universe(s, universe) == [s EXCEPT !.universe = universe]

set_initial_capital(s, capital) ==
    [s EXCEPT !.initial_capital = capital, !.cash = capital]

\* self.positions.get(stock_code, 0)
get_position(s, stock_code) ==
    IF stock_code \in DOMAIN s.positions THEN s.positions[stock_code] ELSE 0

\* get_price(stock_code, 'close') on the bar data cd
get_price(cd, stock_code) ==
    IF stock_code \in DOMAIN cd THEN cd[stock_code].close ELSE 0

\* cash plus the held stocks that have bar data, at their close
update_portfolio_value(s, cd) ==
    LET held == DOMAIN s.positions
        worth == [c \in held |-> IF c \in DOMAIN cd
                                 THEN cd[c].close * s.positions[c] ELSE 0]
    IN  [s EXCEPT !.portfolio_value = s.cash + SumOver(worth, held)]

\* the dict BaseStrategy.order returns (price None, order_type MARKET)
order_details(stock_code, quantity) ==
    [stock_code |-> stock_code,
     action |-> IF quantity > 0 THEN "BUY" ELSE "SELL",
     quantity |-> Abs(quantity)]

\* NewPositions storing a closed position as an entry of quantity 0
NewPositions_KeepZero(positions, stock_code, new_position) ==
    DictPut(positions, stock_code, new_position)

\* self.positions after update_position: a position that became 0 is
\* removed, any other is stored
NewPositions(positions, stock_code, new_position) ==
    IF new_position = 0
    THEN DictDel(positions, stock_code)
    ELSE DictPut(positions, stock_code, new_position)

update_position(s, cd, stock_code, quantity_change, price) ==
    LET current_position == get_position(s, stock_code)
        new_position == current_position + quantity_change
    IN  update_portfolio_value(
            [s EXCEPT !.cash = @ - quantity_change * price,
                      !.positions = NewPositions(@, stock_code, new_position)],
            cd)

(*************************************************************************)
(* MAStrategy._strategy_logic                                             *)
(*************************************************************************)
RECURSIVE SumSeq(_)
SumSeq(q) == IF q = <<>> THEN 0 ELSE Head(q) + SumSeq(Tail(q))

\* price_history['close'].rolling(window).mean().iloc[-1], for a history
\* of at least `window` bars: the mean of the last `window` closes
RollingMean(price_history, window) ==
    LET n == Len(price_history)
    IN  Rat(SumSeq(SubSeq(price_history, n - window + 1, n)), window)

\* price >= ma
Above_OrEqual(price, ma) == RLe(ma, Rat(price, 1))

\* price > ma
Above(price, ma) == RLt(ma, Rat(price, 1))

IsBuySignal(current_crossover, previous_crossover, current_position) ==
    current_crossover /\ ~previous_crossover /\ current_position = 0

IsSellSignal(current_crossover, previous_crossover, current_position) ==
    ~current_crossover /\ previous_crossover /\ current_position > 0

\* position_value = portfolio_value * 0.1
PositionValue(portfolio_value) == Rat(portfolio_value, 10)

\* int(position_value / current_price)
BuyQuantity(portfolio_value, current_price) ==
    Trunc(portfolio_value, 10 * current_price)

RECURSIVE strategy_logic(_, _, _)
\* the loop over self.universe on the bar data cd.
\* acc: [s, orders], s the strategy's fields, orders the decisions so far
strategy_logic(universe, cd, acc) ==
    IF universe = <<>> THEN acc
    ELSE
    LET stock_code == Head(universe)
        s == acc.s
        current_price == get_price(cd, stock_code)
        skip == \/ stock_code \notin DOMAIN cd
                \/ current_price = 0
                \/ Len(cd[stock_code].history) < s.ma_period
        ma == RollingMean(cd[stock_code].history, s.ma_period)
        prev_ma == IF stock_code \in DOMAIN s.previous_ma
                   THEN s.previous_ma[stock_code] ELSE ma
        prev_price == IF stock_code \in DOMAIN s.previous_price
                      THEN s.previous_price[stock_code] ELSE current_price
        current_crossover == Above(current_price, ma)
        previous_crossover == Above(prev_price, prev_ma)
        current_position == get_position(s, stock_code)
        quantity == BuyQuantity(s.portfolio_value, current_price)
        orders ==
            IF IsBuySignal(current_crossover, previous_crossover, current_position)
            THEN IF /\ quantity > 0
                    /\ RLe(PositionValue(s.portfolio_value), Rat(s.cash, 1))
                 THEN Append(acc.orders, order_details(stock_code, quantity))
                 ELSE acc.orders
            ELSE IF IsSellSignal(current_crossover, previous_crossover,
                                 current_position)
            THEN Append(acc.orders,
                        order_details(stock_code, 0 - current_position))
            ELSE acc.orders
    IN  IF skip
        THEN strategy_logic(Tail(universe), cd, acc)
        ELSE strategy_logic(Tail(universe), cd,
               [s |-> [s EXCEPT
                         !.previous_ma = DictPut(@, stock_code, ma),
                         !.previous_price = DictPut(@, stock_code, current_price)],
                orders |-> orders])

\* BaseStrategy.handle_data: the portfolio value is refreshed, then the
\* strategy decides
handle_data(s, cd) ==
    strategy_logic(s.universe, cd,
                   [s |-> update_portfolio_value(s, cd), orders |-> <<>>])

(*************************************************************************)
(* StrategyWrapper: MAStrategy under the backtrader bar loop              *)
(*************************************************************************)
\* number of bars of a backtest of MAStrategy
MaxMABars == 4

\* number of update_position calls made directly on a BaseStrategy
MaxCalls == 3

\* the data feeds of the backtest
Stocks == {1, 2, 3}

\* the closes of one bar: stock 1 can rise a hundredfold (explored on the
\* bars where the others close at 200), stock 3 can have a bar without a
\* price (explored on the bars where stock 2 closes at 100)
StockCloses ==
    {c \in [Stocks -> {0, 100, 200, 10000}] :
        /\ c[1] \in {100, 200, 10000}
        /\ c[2] \in {100, 200}
        /\ c[3] \in {0, 200}
        /\ c[1] = 10000 => (c[2] = 200 /\ c[3] = 200)
        /\ c[3] = 0 => c[2] = 100}

\* the universes given to set_universe: every feed, and one with a stock
\* code (4) that has no data feed
Universes == {<<1, 2, 3>>, <<4, 2>>}

\* d.close[j] for the bars so far
History(stock_code) ==
    IF stock_code \in DOMAIN current_data
    THEN current_data[stock_code].history ELSE <<>>

\* calls of StrategyWrapper.next() so far
Bars == IF DOMAIN current_data = {} THEN 0 ELSE Len(History(1))

NetOf(net, stock_code) ==
    IF stock_code \in DOMAIN net THEN net[stock_code] ELSE 0

RECURSIVE Convert(_, _, _)
\* the loop that turns the order decisions into backtrader orders and
\* books each at once on the strategy, at the bar's close.
\* acc: [s, pending, net, calls]
Convert(orders, cd, acc) ==
    IF orders = <<>> THEN acc
    ELSE LET o == Head(orders)
             stock_code == o.stock_code
             price == cd[stock_code].close
             change == IF o.action = "BUY" THEN o.quantity ELSE 0 - o.quantity
         IN  IF stock_code \notin Stocks
             THEN Convert(Tail(orders), cd, acc)
             ELSE Convert(Tail(orders), cd,
                    [s |-> update_position(acc.s, cd, stock_code, change, price),
                     pending |-> Append(acc.pending,
                                   Order(o.action, stock_code, o.quantity, "ma")),
                     net |-> DictPut(acc.net, stock_code,
                                     NetOf(acc.net, stock_code) + change),
                     calls |-> acc.calls + 1])

StrategyWrapper_next ==
    /\ p.strategy = "MAStrategy"
    /\ pc = "strategy"
    /\ Bars < MaxMABars
    /\ LET cd == [c \in Stocks |->
                    [close |-> close[c],
                     history |-> Append(History(c), close[c])]]
           r == handle_data(strategy, cd)
           done == Convert(r.orders, cd,
                           [s |-> r.s, pending |-> pending,
                            net |-> ma_log.net, calls |-> ma_log.calls])
       IN  /\ current_data' = cd
           /\ strategy' = done.s
           /\ pending' = done.pending
           /\ ma_log' = [orders |-> r.orders, pos |-> strategy.positions,
                         cash |-> strategy.cash, net |-> done.net,
                         calls |-> done.calls]
    /\ pc' = "broker"
    /\ UNCHANGED <<p, position, cash, close, rejected, crashed, day_count,
                   current_holdings, cycle>>
    /\ UNCHANGED gridvars

\* the data feeds advance to the next bar and the broker executes what
\* was submitted on the previous one
WrapperBrokerNext ==
    /\ p.strategy = "MAStrategy"
    /\ pc = "broker"
    /\ Bars < MaxMABars
    /\ \E c \in StockCloses :
         LET b == Execute(pending, c,
                    [position |-> position, cash |-> cash, rejected |-> <<>>])
         IN  /\ close' = c
             /\ position' = b.position
             /\ cash' = b.cash
             /\ rejected' = b.rejected
    /\ pending' = <<>>
    /\ pc' = "strategy"
    /\ UNCHANGED <<p, day_count, current_holdings, cycle, crashed>>
    /\ UNCHANGED gridvars
    /\ UNCHANGED wrapvars

\* StrategyWrapper.__init__ hands the broker's value to the strategy; the
\* universe is the caller's
InitMA ==
    /\ p \in {[strategy |-> "MAStrategy", commission |-> DefaultCommission]}
    /\ day_count = 0
    /\ current_holdings = EmptyDict
    /\ position = [e \in Stocks |-> 0]
    /\ cash = StartCash
    /\ pending = <<>>
    /\ close = [e \in Stocks |-> 100]
    /\ cycle = NoCycle
    /\ rejected = <<>>
    /\ crashed = FALSE
    /\ pc = "broker"
    /\ GridFieldsInit
    /\ strategy \in {set_initial_capital(set_universe(MAStrategy(2), u), StartCash) :
                       u \in Universes}
    /\ current_data = EmptyDict
    /\ ma_log = NoMALog

NextMA == WrapperBrokerNext \/ StrategyWrapper_next

SpecMA == InitMA /\ [][NextMA]_vars

(*************************************************************************)
(* BaseStrategy.update_position called directly, in any order             *)
(*************************************************************************)
\* the stock codes, quantity changes and execution prices of the calls
Codes == {1, 2}
Changes == {0 - 2, 0 - 1, 1, 2}
CallPrices == {100, 200}

update_position_call ==
    /\ p.strategy = "BaseStrategy"
    /\ ma_log.calls < MaxCalls
    /\ \E stock_code \in Codes, quantity_change \in Changes, price \in CallPrices :
         /\ strategy' = update_position(strategy, current_data, stock_code,
                                        quantity_change, price)
         /\ ma_log' = [ma_log EXCEPT
                         !.pos = strategy.positions,
                         !.cash = strategy.cash,
                         !.net = DictPut(@, stock_code,
                                         NetOf(@, stock_code) + quantity_change),
                         !.calls = @ + 1]
    /\ UNCHANGED current_data
    /\ UNCHANGED rotvars
    /\ UNCHANGED gridvars

InitBase ==
    /\ p \in {[strategy |-> "BaseStrategy", commission |-> DefaultCommission]}
    /\ day_count = 0
    /\ current_holdings = EmptyDict
    /\ position = [e \in Stocks |-> 0]
    /\ cash = StartCash
    /\ pending = <<>>
    /\ close = [e \in Stocks |-> 100]
    /\ cycle = NoCycle
    /\ rejected = <<>>
    /\ crashed = FALSE
    /\ pc = "broker"
    /\ GridFieldsInit
    /\ strategy = set_initial_capital(MAStrategy(2), StartCash)
    /\ current_data = EmptyDict
    /\ ma_log = NoMALog

NextBase == update_position_call

SpecBase == InitBase /\ [][NextBase]_vars

(*************************************************************************)
(* Properties                                                             *)
(*************************************************************************)
IsV2 == p.strategy = "ETFRotationStrategy2"

OrderIdx == 1..Len(cycle.orders)

Sells == {i \in OrderIdx : cycle.orders[i].side = "SELL"}
Buys == {i \in OrderIdx : cycle.orders[i].side = "BUY"}

\* the orders of the cycle for one ETF
OrdersOf(e) == {i \in OrderIdx : cycle.orders[i].etf = e}

\* next() of this bar has run a rebalance and nothing has happened since
JustRebalanced == cycle.ran /\ pc = "broker"

\* C1: in a rebalance cycle of ETFRotationStrategy2 every SELL or close
\* order is issued before every BUY order
C1_SellBeforeBuy ==
    (IsV2 /\ cycle.ran) => \A i \in Sells : \A j \in Buys : i < j

\* a cycle that closes one ETF, reduces or closes and buys another
C1_Witness ==
    /\ IsV2 /\ cycle.ran
    /\ Sells # {} /\ Buys # {}

\* C2 (as claimed): when next() has issued a BUY, every SELL of the cycle
\* has been executed: none is still queued at the broker and the positions
\* are those of the start of the cycle less the shares sold
C2_SellsAppliedBeforeBuys ==
    (IsV2 /\ JustRebalanced /\ Buys # {}) =>
        \A i \in Sells :
            /\ \A k \in 1..Len(pending) : pending[k] # cycle.orders[i]
            /\ position[cycle.orders[i].etf] =
                   cycle.pos[cycle.orders[i].etf] - cycle.orders[i].size

\* C3 (as claimed): no rotation strategy ever holds a negative position
C3_NoShortPosition == \A e \in ETFS : position[e] >= 0

\* the snapshot has an undefined value or both momenta negative
Unscorable(s) ==
    \/ s.sm = NaN \/ s.lm = NaN \/ s.vol = NaN \/ s.vc = NaN
    \/ (s.sm < 0 /\ s.lm < 0)

\* C4 (as claimed): an ETF with an undefined indicator value, or with both
\* momenta negative, is not scored, not selected and gets no BUY order in
\* the cycle
C4_UnscorableNeverBought ==
    cycle.ran =>
        \A e \in ETFS :
            Unscorable(cycle.ind[e]) =>
                /\ e \notin DOMAIN cycle.scores
                /\ e \notin Elems(cycle.top_etfs)
                /\ e \notin DOMAIN cycle.target_weights
                /\ \A i \in OrdersOf(e) : cycle.orders[i].side # "BUY"

RECURSIVE WeightSum(_, _)
WeightSum(w, S) ==
    IF S = {} THEN Zero
    ELSE LET x == CHOOSE y \in S : TRUE IN RAdd(w[x], WeightSum(w, S \ {x}))

\* C5: every target weight of ETFRotationStrategy2 is in [0, position_limit]
\* and the weights sum to at most position_limit * max_etfs
C5_WeightsWithinCap ==
    (IsV2 /\ cycle.ran) =>
        LET w == cycle.target_weights
        IN  /\ \A e \in DOMAIN w :
                 RLe(Zero, w[e]) /\ RLe(w[e], Rat(p.position_limit, 5))
            /\ RLe(WeightSum(w, DOMAIN w), Rat(p.position_limit * p.max_etfs, 5))

\* two targets, the second below the cap
C5_Witness ==
    /\ IsV2 /\ cycle.ran
    /\ Cardinality(DOMAIN cycle.target_weights) = 2
    /\ \E e \in DOMAIN cycle.target_weights :
         RLt(cycle.target_weights[e], Rat(p.position_limit, 5))

\* C6 (as claimed): the target weights of a cycle sum to at most 1.0
C6_NoLeverage ==
    (IsV2 /\ cycle.ran) =>
        RLe(WeightSum(cycle.target_weights, DOMAIN cycle.target_weights), Rat(1, 1))

\* the score of the formula, for an ETF that passes the two filters
ScoreOf(e) ==
    LET s == cycle.ind[e]
        v == IF s.vol <= 0 THEN 1 ELSE s.vol
    IN  Rat((10 - p.volume_weight) * s.sm + p.volume_weight * s.vc, 10 * v)

NonPositive(e) == ~Unscorable(cycle.ind[e]) /\ RLe(ScoreOf(e), Zero)

\* C7: an ETF whose score is <= 0 gets no target weight and no BUY order;
\* when no score is positive the target map is empty
C7_NonPositiveNeverTargeted ==
    (IsV2 /\ cycle.ran) =>
        /\ \A e \in ETFS :
             NonPositive(e) =>
                /\ e \notin DOMAIN cycle.target_weights
                /\ \A i \in OrdersOf(e) : cycle.orders[i].side # "BUY"
        /\ (\A e \in ETFS : Unscorable(cycle.ind[e]) \/ NonPositive(e)) =>
                cycle.target_weights = EmptyDict /\ Buys = {}

\* a cycle with an ETF of non-positive score beside one that is bought
C7_Witness ==
    /\ IsV2 /\ cycle.ran
    /\ \E e \in ETFS : NonPositive(e)
    /\ Buys # {}

\* C8: every ETF with a positive position that is not selected gets a close
\* order for the whole position; with no candidate at all every held ETF
\* is closed and nothing is bought
C8_UnselectedClosed ==
    (IsV2 /\ cycle.ran) =>
        /\ \A e \in ETFS :
             (cycle.pos[e] > 0 /\ e \notin Elems(cycle.top_etfs)) =>
                \E i \in OrdersOf(e) :
                    /\ cycle.orders[i].side = "SELL"
                    /\ cycle.orders[i].kind = "close"
                    /\ cycle.orders[i].size = cycle.pos[e]
        /\ cycle.top_etfs = <<>> => Buys = {}

\* a cycle without any candidate while an ETF is held
C8_Witness ==
    /\ IsV2 /\ cycle.ran
    /\ cycle.top_etfs = <<>>
    /\ \E e \in ETFS : cycle.pos[e] > 0
    /\ Sells # {}

\* floor(portfolio_value * weight / price)
FloorShares(e) ==
    (cycle.value * cycle.target_weights[e].n)
        \div (cycle.target_weights[e].d * cycle.prices[e])

\* C9: for a targeted ETF with a valid price the cycle issues exactly the
\* difference between floor(portfolio_value * weight / price) and the
\* position: one SELL when the target is lower, one BUY when it is
\* higher, nothing when they are equal
C9_InstructionIsDifference ==
    (IsV2 /\ cycle.ran) =>
        \A e \in DOMAIN cycle.target_weights :
            cycle.prices[e] > 0 =>
                LET t == FloorShares(e)
                    h == cycle.pos[e]
                    o == OrdersOf(e)
                IN  /\ t < h => \E i \in o :
                                   /\ o = {i}
                                   /\ cycle.orders[i].side = "SELL"
                                   /\ cycle.orders[i].size = h - t
                    /\ t > h => \E i \in o :
                                   /\ o = {i}
                                   /\ cycle.orders[i].side = "BUY"
                                   /\ cycle.orders[i].size = t - h
                    /\ t = h => o = {}

\* a cycle that reduces one target and raises another
C9_Witness ==
    /\ IsV2 /\ cycle.ran
    /\ \E e \in DOMAIN cycle.target_weights :
         cycle.prices[e] > 0 /\ FloorShares(e) < cycle.pos[e]
    /\ \E e \in DOMAIN cycle.target_weights :
         cycle.prices[e] > 0 /\ FloorShares(e) > cycle.pos[e]

\* C10 (as claimed): a cycle that follows a cycle with the same target
\* weights and prices, whose orders were all executed, issues no order
C10_Idempotent ==
    (IsV2 /\ cycle.ran /\ cycle.repeat) => cycle.orders = <<>>

\* C10 (amended): ... and that reads the same portfolio value as the
\* cycle before it, issues no order
C10_IdempotentAtSameValue ==
    (IsV2 /\ cycle.ran /\ cycle.repeat /\ cycle.value = cycle.prev_value) =>
        cycle.orders = <<>>

\* the cycle before bought, its orders were executed, and this cycle has
\* the same weights, prices and value
C10_Witness ==
    /\ IsV2 /\ cycle.ran /\ cycle.repeat
    /\ cycle.value = cycle.prev_value
    /\ \E i \in 1..Len(cycle.prev_orders) : cycle.prev_orders[i].side = "BUY"
    /\ cycle.target_weights # EmptyDict

\* C11: the rebalance body of ETFRotationStrategy2 runs on exactly the bars
\* whose 1-based count is a multiple of rebalance_days, once per such bar
\* (the count advances by one per call of next() and the body runs nowhere
\* else); on every other bar next() issues no order and changes nothing
\* but the day counter
C11_RebalanceEveryNthBar ==
    [][IsV2 =>
        /\ day_count' # day_count =>
              /\ day_count' = day_count + 1
              /\ cycle'.ran <=> (day_count' % p.rebalance_days = 0)
              /\ day_count' % p.rebalance_days # 0 =>
                    /\ pending' = pending
                    /\ UNCHANGED <<p, current_holdings, position, cash,
                                   close, rejected, crashed>>
        /\ day_count' = day_count => cycle' = cycle]_vars

\* a bar that is skipped while ETFs are held: bar 3 with rebalance_days 2,
\* after the cycle of bar 2 has bought
C11_Witness ==
    /\ IsV2 /\ p.rebalance_days = 2
    /\ day_count = 3 /\ pc = "broker"
    /\ ~cycle.ran
    /\ current_holdings # EmptyDict
    /\ \E e \in ETFS : position[e] > 0

\* the place of a step in IDLE -> SCORING -> TARGET_SELECTION ->
\* SELL_EXECUTION -> VALUE_REFRESH -> BUY_EXECUTION -> IDLE
PhaseRank(ph) ==
    CASE ph = "SCORING" -> 1
      [] ph = "TARGET_SELECTION" -> 2
      [] ph = "SELL_EXECUTION" -> 3
      [] ph = "VALUE_REFRESH" -> 4
      [] ph = "BUY_EXECUTION" -> 5
      [] ph = "IDLE" -> 6

LogIdx(ph) == {i \in 1..Len(cycle.log) : cycle.log[i] = ph}

\* C12: a cycle of ETFRotationStrategy2 goes through scoring, target
\* selection, the issue of its sells, the second read of the portfolio
\* value and the issue of its buys in this order and has returned when the
\* bar ends: no sell is issued before the selection, every order is logged,
\* and when there are targets the value is read again exactly once, after
\* the last sell and before the first buy
C12_PhaseOrder ==
    (IsV2 /\ cycle.ran) =>
        LET log == cycle.log
        IN  /\ Len(log) >= 3
            /\ log[1] = "SCORING" /\ log[2] = "TARGET_SELECTION"
            /\ log[Len(log)] = "IDLE"
            /\ \A i, j \in 1..Len(log) :
                 i < j => PhaseRank(log[i]) <= PhaseRank(log[j])
            /\ Cardinality(LogIdx("SELL_EXECUTION")) = Cardinality(Sells)
            /\ Cardinality(LogIdx("BUY_EXECUTION")) = Cardinality(Buys)
            /\ Cardinality(LogIdx("SCORING")) = 1
            /\ Cardinality(LogIdx("TARGET_SELECTION")) = 1
            /\ Cardinality(LogIdx("IDLE")) = 1
            /\ cycle.top_etfs # <<>> => Cardinality(LogIdx("VALUE_REFRESH")) = 1

\* a cycle with a sell, the second read and a buy
C12_Witness ==
    /\ IsV2 /\ cycle.ran
    /\ LogIdx("SELL_EXECUTION") # {}
    /\ LogIdx("VALUE_REFRESH") # {}
    /\ LogIdx("BUY_EXECUTION") # {}

\* the targeted ETFs whose close is <= 0 when the cycle sizes its orders
BadPriced == {e \in DOMAIN cycle.target_weights : cycle.prices[e] <= 0}

\* C13: when the close of a targeted ETF is <= 0 at sizing time the cycle
\* issues no SELL and no BUY for it, next() does not raise and runs to its
\* end, and every other targeted ETF still gets its instruction: the SELL
\* or BUY of the difference between its target shares and its position
C13_BadPriceSkipped ==
    (IsV2 /\ cycle.ran /\ BadPriced # {}) =>
        /\ \A e \in BadPriced : OrdersOf(e) = {}
        /\ ~crashed
        /\ cycle.log[Len(cycle.log)] = "IDLE"
        /\ \A e \in (DOMAIN cycle.target_weights) \ BadPriced :
             LET t == FloorShares(e)
                 h == cycle.pos[e]
             IN  /\ t < h => \E i \in OrdersOf(e) :
                                /\ cycle.orders[i].side = "SELL"
                                /\ cycle.orders[i].size = h - t
                 /\ t > h => \E i \in OrdersOf(e) :
                                /\ cycle.orders[i].side = "BUY"
                                /\ cycle.orders[i].size = t - h

\* the first target has a close of 0 and is held, the second is bought
C13_Witness ==
    /\ IsV2 /\ cycle.ran
    /\ Len(cycle.top_etfs) = 2
    /\ cycle.top_etfs[1] \in BadPriced
    /\ cycle.pos[cycle.top_etfs[1]] > 0
    /\ \E i \in OrdersOf(cycle.top_etfs[2]) : cycle.orders[i].side = "BUY"

\* C14: the top-scored selected ETF gets the target weight position_limit
\* exactly, every other selected ETF gets (score / highest_score) *
\* position_limit, and so the weights are ordered as the scores are
C14_WeightsProportional ==
    (IsV2 /\ cycle.ran /\ cycle.top_etfs # <<>>) =>
        LET w == cycle.target_weights
            sc == cycle.scores
            top == cycle.top_etfs[1]
            cap == Rat(p.position_limit, 5)
        IN  /\ DOMAIN w = Elems(cycle.top_etfs)
            /\ \A e \in DOMAIN w : RLe(sc[e], sc[top])
            /\ w[top] = cap
            /\ \A e \in DOMAIN w :
                 w[e] = RMul(RDiv(sc[e], sc[top]), cap)
            /\ \A e, f \in DOMAIN w :
                 RLe(sc[e], sc[f]) <=> RLe(w[e], w[f])

\* two selected ETFs with different scores
C14_Witness ==
    /\ IsV2 /\ cycle.ran
    /\ Len(cycle.top_etfs) = 2
    /\ RLt(cycle.scores[cycle.top_etfs[2]], cycle.scores[cycle.top_etfs[1]])
    /\ RLt(cycle.target_weights[cycle.top_etfs[2]],
           cycle.target_weights[cycle.top_etfs[1]])

\* C15: the selected list of a cycle is sorted by score descending, has at
\* most max_etfs entries, all of them scored and none twice, and no scored
\* ETF left out has a score strictly greater than a selected one
C15_TopSelection ==
    (IsV2 /\ cycle.ran) =>
        LET top == cycle.top_etfs
            sc == cycle.scores
        IN  /\ Len(top) <= p.max_etfs
            /\ Elems(top) \subseteq DOMAIN sc
            /\ Cardinality(Elems(top)) = Len(top)
            /\ \A i, j \in 1..Len(top) : i < j => RLe(sc[top[j]], sc[top[i]])
            /\ \A e \in (DOMAIN sc) \ Elems(top) :
                 \A f \in Elems(top) : ~RLt(sc[f], sc[e])

\* max_etfs is 1 and the second feed has the higher of two scores: the
\* first feed is left out
C15_Witness ==
    /\ IsV2 /\ cycle.ran
    /\ p.max_etfs = 1
    /\ DOMAIN cycle.scores = ETFS
    /\ RLt(cycle.scores[1], cycle.scores[2])
    /\ cycle.top_etfs = <<2>>

\* C16: every score a cycle has computed, of either rotation strategy, is
\* ((1 - volume_weight) * short_momentum + volume_weight * volume_change)
\* / d, with d the volatility when it is > 0 and 0.0001 otherwise; the
\* divisor is never zero
C16_ScoreFormula ==
    cycle.ran =>
        \A e \in DOMAIN cycle.scores :
            LET s == cycle.ind[e]
                d == IF s.vol > 0 THEN s.vol ELSE 1
            IN  /\ ~Unscorable(s)
                /\ d > 0
                /\ cycle.scores[e].d > 0
                /\ cycle.scores[e] =
                       Rat((10 - p.volume_weight) * s.sm + p.volume_weight * s.vc,
                           10 * d)

\* a scored ETF whose volatility is 0: the score is taken over 0.0001
C16_Witness ==
    /\ cycle.ran
    /\ \E e \in DOMAIN cycle.scores :
         /\ cycle.ind[e].vol = 0
         /\ cycle.scores[e] = Rat(7 * cycle.ind[e].sm + 3 * cycle.ind[e].vc, 10)
    /\ \E e \in DOMAIN cycle.scores : cycle.ind[e].vol > 1

\* the ETFs with a positive position at the broker
Held == {e \in ETFS : position[e] > 0}

\* C17: under ETFRotationStrategy2 the number of ETFs with a positive
\* position is at most max_etfs in every reachable state, the states in
\* which the broker has filled the orders of a cycle among them
C17_AtMostMaxEtfsHeld ==
    IsV2 => Cardinality(Held) <= p.max_etfs

\* max_etfs is 1: the broker has filled a cycle that closed the ETF held
\* before and bought the other one
C17_Witness ==
    /\ IsV2 /\ p.max_etfs = 1
    /\ pc = "strategy" /\ cycle.ran
    /\ \E e \in ETFS :
         /\ cycle.pos[e] > 0 /\ position[e] = 0
         /\ \E f \in ETFS \ {e} : cycle.pos[f] = 0 /\ position[f] > 0

\* position_limit * max_etfs above 1.0 (position_limit is in fifths), or
\* volume_weight (in tenths) outside [0, 1]
Inconsistent(q) ==
    \/ q.position_limit * q.max_etfs > 5
    \/ q.volume_weight < 0 \/ q.volume_weight > 10

\* C18 (as claimed): an inconsistent configuration is rejected when the
\* strategy is constructed: with such parameters no bar is ever processed
\* and no rebalance cycle runs
C18_InconsistentConfigRejected ==
    (IsV2 /\ Inconsistent(p)) => (day_count = 0 /\ ~cycle.ran)

IsGrid == p.strategy = "GridStrategy"

\* the queued orders of one side that next() issued for a grid
PendingGrid(side) ==
    {i \in 1..Len(pending) : pending[i].side = side /\ pending[i].kind = "grid"}

\* the buy grids open since the last setup_grids: the buy orders filled
\* or still pending, less the grid sell orders filled or still pending
OpenBuyGrids ==
    (grid_log.filled_buys + Cardinality(PendingGrid("BUY")))
        - (grid_log.filled_sells + Cardinality(PendingGrid("SELL")))

BuysOfLevel(index) ==
    {i \in 1..Len(grid_log.buys) : grid_log.buys[i].index = index}

\* C20: while the trend is down, every buy grid has had at most one buy
\* order issued since the last setup_grids, and no two of the buy orders
\* issued since then share a price level
C20_DownLevelBoughtOnce ==
    (IsGrid /\ trend = "down") =>
        /\ \A k \in 1..p.grid_levels : Cardinality(BuysOfLevel(k)) <= 1
        /\ \A i, j \in 1..Len(grid_log.buys) :
             grid_log.buys[i].key = grid_log.buys[j].key => i = j

\* a down trend in which next() has just passed over a grid it bought on
\* an earlier bar: the price is at or below the grid again, the grid is
\* not among the open grid positions and another grid could be opened
C20_Witness ==
    /\ IsGrid /\ trend = "down"
    /\ pc = "broker" /\ grid_log.ran /\ ~grid_log.reset
    /\ active_buy_grids < p.grid_levels
    /\ 100 * cash >= getvalue * p.capital_per_grid
    /\ \E i \in 1..Len(grid_log.buys) :
         LET o == grid_log.buys[i]
         IN  /\ o.key \notin DOMAIN grid_positions
             /\ o.key \in triggered_grids
             /\ close[Data0] <= o.key
             /\ \A k \in 1..Len(grid_log.issued) : grid_log.issued[k] # o

IsMA == p.strategy = "MAStrategy"

\* the bars of stock c on which _strategy_logic got past its three tests:
\* a price other than 0 and a history of at least ma_period bars
EvaluatedBars(c) ==
    {k \in strategy.ma_period..Len(History(c)) : History(c)[k] # 0}

\* on bar k the close of stock c is above the mean of the ma_period closes
\* that end at bar k
AboveAt(c, k) ==
    History(c)[k] * strategy.ma_period >
        SumSeq(SubSeq(History(c), k - strategy.ma_period + 1, k))

\* the evaluated bar of stock c before bar k (0: there is none)
PrevEvaluated(c, k) ==
    IF \E j \in EvaluatedBars(c) : j < k
    THEN CHOOSE j \in EvaluatedBars(c) :
           j < k /\ \A i \in EvaluatedBars(c) : i < k => i <= j
    ELSE 0

\* C21: every order MAStrategy emits on a bar is for a stock evaluated on
\* that bar and on an earlier one; a BUY only when the price is above the
\* moving average, was not above it on the previously evaluated bar, and
\* the strategy's position in the stock is 0; a SELL only when the price
\* is not above the average, was above it on the previously evaluated bar
\* and the position is positive, and then for the whole position.
C21_OrdersOnlyOnCrossings ==
    IsMA =>
      \A i \in 1..Len(ma_log.orders) :
        LET o == ma_log.orders[i]
            c == o.stock_code
            k == Bars
            j == PrevEvaluated(c, k)
            held == NetOf(ma_log.pos, c)
        IN  /\ k \in EvaluatedBars(c)
            /\ j # 0
            /\ o.action = "BUY" =>
                  AboveAt(c, k) /\ ~AboveAt(c, j) /\ held = 0
            /\ o.action = "SELL" =>
                  ~AboveAt(c, k) /\ AboveAt(c, j) /\ held > 0
                  /\ o.quantity = held

\* a bar on which a position bought on an earlier crossing is sold whole
C21_Witness ==
    /\ IsMA
    /\ \E i \in 1..Len(ma_log.orders) :
         /\ ma_log.orders[i].action = "SELL"
         /\ ma_log.orders[i].quantity = ma_log.pos[ma_log.orders[i].stock_code]
         /\ ma_log.orders[i].stock_code \notin DOMAIN strategy.positions

\* the stock codes update_position was called for, or that are held
Touched == DOMAIN ma_log.net \cup DOMAIN strategy.positions \cup Codes

\* C22: after any sequence of update_position calls, get_position of a
\* stock code is the sum of the quantity changes applied to it, no entry
\* of the positions map has quantity 0, and get_position is 0 for a code
\* that is not a key of the map.
C22_PositionsAreNetSums ==
    /\ \A c \in Touched : get_position(strategy, c) = NetOf(ma_log.net, c)
    /\ \A c \in DOMAIN strategy.positions : strategy.positions[c] # 0
    /\ \A c \in Touched :
         c \notin DOMAIN strategy.positions => get_position(strategy, c) = 0

\* calls have brought one stock back to 0, which is no longer a key, while
\* another stock is held short
C22_Witness ==
    /\ p.strategy = "BaseStrategy"
    /\ \E c \in DOMAIN ma_log.net :
         /\ ma_log.net[c] = 0
         /\ c \notin DOMAIN strategy.positions
    /\ \E c \in DOMAIN strategy.positions : strategy.positions[c] < 0
\* C23: when next() of ETFRotationStrategy2 is about to run, every
\* instrument with a positive broker position is a key of
\* current_holdings, whatever became of the orders of earlier cycles.
C23_HeldIsInCurrentHoldings ==
    (IsV2 /\ pc = "strategy") =>
      \A e \in ETFS : position[e] > 0 => e \in DOMAIN current_holdings

\* a cycle is about to start after the broker rejected a buy of the cycle
\* before for margin, with a position held
C23_Witness ==
    /\ IsV2
    /\ pc = "strategy"
    /\ BarsLeft
    /\ rejected # <<>>
    /\ \E e \in ETFS : position[e] > 0 /\ e \in DOMAIN current_holdings
PendingSellSize ==
    SumSeq([i \in 1..Len(pending) |->
              IF pending[i].side = "SELL" THEN pending[i].size ELSE 0])

C26_ActiveGridsAreKeys ==
    IsGrid =>
      /\ active_buy_grids = Cardinality(DOMAIN grid_positions)
      /\ active_buy_grids >= 0
      /\ \A k \in DOMAIN grid_positions : grid_positions[k] > 0

\* a buy fill has opened a grid that is still open, after a grid sell was
\* booked on grid_positions
C26_Witness ==
    /\ IsGrid
    /\ active_buy_grids > 0
    /\ grid_log.filled_sells > 0
\* the value, at the bar's close, of the BUY orders the last handle_data
\* returned
EmittedBuyValue ==
    SumSeq([i \in 1..Len(ma_log.orders) |->
              IF ma_log.orders[i].action = "BUY"
              THEN ma_log.orders[i].quantity
                     * current_data[ma_log.orders[i].stock_code].close
              ELSE 0])

\* C27: under StrategyWrapper the cash of MAStrategy is never negative:
\* the BUY orders emitted on a bar are worth no more than the cash the
\* strategy had when the bar began.
C27_CashNeverNegative ==
    IsMA => /\ strategy.cash >= 0
            /\ EmittedBuyValue <= ma_log.cash
====
